---- MODULE Spec2Model ----
(***************************************************************************)
(* A model of tinerator/generate_triplane.py: the orchestration layer that *)
(* drives the LaGriT mesh kernel.  One call of one function is modelled at *)
(* a time.  The state is the call (fn, args), the position inside it (pc), *)
(* its local variables (loc), the commands issued to the kernel so far     *)
(* (kernel), the working directory (files) and the exception that ended    *)
(* the call, if any (raised).                                              *)
(*                                                                         *)
(* Python arrays are 0-based, TLA+ sequences 1-based: python a[i] is a[i+1]*)
(* here, and a python slice a[lo:hi] is the positions lo+1 .. hi.          *)
(***************************************************************************)
EXTENDS Integers, Sequences, FiniteSets, TLC

VARIABLES fn, pc, args, loc, kernel, files, raised

vars == <<fn, pc, args, loc, kernel, files, raised>>

NoError == "none"

\* A python value that may be None: None itself, or Some(x).
None == [isNone |-> TRUE, val |-> <<>>]

Some(x) == [isNone |-> FALSE, val |-> x]

(***************************************************************************)
(* Bounds of the model.                                                    *)
(***************************************************************************)
MaxPolyline == 4

Points == {<<0, 0>>, <<1, 0>>}

SeqsUpTo(S, lo, hi) == UNION {[1..n -> S] : n \in lo..hi}

Range(s) == {s[i] : i \in DOMAIN s}

Max(S) == CHOOSE m \in S : \A x \in S : x <= m

Min(S) == CHOOSE m \in S : \A x \in S : m <= x

(***************************************************************************)
(* generateLineConnectivity                                                *)
(***************************************************************************)
\* np.empty leaves the rows unset; every row is assigned before the array is
\* returned, and Unset marks a row that was not.
Unset == <<-1, -1>>

edge_zeroBased(i) == <<i, i + 1>>

\* connectivity[i] = np.array((i+1,i+2))
edge(i) == <<i + 1, i + 2>>

\* connectivity[-1] = np.array((size,1))
closingEdge(size) == <<size, 1>>

RECURSIVE connectivityLoop(_, _, _)
\* for i in range(size-1): connectivity[i] = ...
connectivityLoop(connectivity, i, size) ==
    IF i >= size - 1 THEN connectivity
    ELSE connectivityLoop([connectivity EXCEPT ![i + 1] = edge(i)], i + 1, size)

generateLineConnectivity(nodes, connect_ends) ==
    LET delta == IF connect_ends THEN 0 ELSE -1
        size == Len(nodes)
        rows == size + delta
    IN  IF rows < 0
        THEN [raised |-> "ValueError", value |-> <<>>]
        ELSE LET connectivity == connectivityLoop([r \in 1..rows |-> Unset], 0, size)
             IN  IF ~connect_ends
                 THEN [raised |-> NoError, value |-> connectivity]
                 ELSE IF rows = 0
                      THEN [raised |-> "IndexError", value |-> <<>>]
                      ELSE [raised |-> NoError,
                            value |-> [connectivity EXCEPT ![rows] = closingEdge(size)]]

InitConnectivity ==
    /\ fn = "generateLineConnectivity"
    /\ pc = "start"
    /\ args \in [nodes : SeqsUpTo(Points, 0, MaxPolyline), connect_ends : BOOLEAN]
    /\ loc = [connectivity |-> <<>>]
    /\ kernel = <<>>
    /\ files = <<>>
    /\ raised = NoError

CallGenerateLineConnectivity ==
    /\ fn = "generateLineConnectivity"
    /\ pc = "start"
    /\ LET r == generateLineConnectivity(args.nodes, args.connect_ends)
       IN  /\ raised' = r.raised
           /\ loc' = [connectivity |-> r.value]
           /\ pc' = IF r.raised = NoError THEN "done" ELSE "raised"
    /\ UNCHANGED <<fn, args, kernel, files>>

NextConnectivity == CallGenerateLineConnectivity

SpecConnectivity == InitConnectivity /\ [][NextConnectivity]_vars

\* C1: for N >= 2 boundary nodes the open polyline has exactly N-1 edges, the
\* i-th (0-based) being (i+1, i+2); the closed polyline has exactly N edges,
\* the first N-1 as in the open case and the last being (N, 1).
C1_Connectivity ==
    (fn = "generateLineConnectivity" /\ pc # "start" /\ Len(args.nodes) >= 2) =>
        LET N == Len(args.nodes)
            c == loc.connectivity
        IN  /\ pc = "done"
            /\ Len(c) = IF args.connect_ends THEN N ELSE N - 1
            /\ \A i \in 0..(N - 2) : c[i + 1] = <<i + 1, i + 2>>
            /\ args.connect_ends => c[N] = <<N, 1>>

C1_Witness ==
    /\ fn = "generateLineConnectivity" /\ pc = "done"
    /\ args.connect_ends
    /\ Len(args.nodes) = 3
    /\ loc.connectivity = <<<<1, 2>>, <<2, 3>>, <<3, 1>>>>

(***************************************************************************)
(* _writeLineAVS: the text of the interchange file, one tuple per line.    *)
(* An attribute dictionary is a sequence of [key, dtype, values] in the    *)
(* dictionary's order, or None.                                            *)
(***************************************************************************)
shape0(a) == IF a.isNone THEN 0 ELSE Len(a.val)

\* "{} {} {} {} 0\n".format(nnodes,nlines,natts,catts)
headerLine(nnodes, nlines, natts, catts) == <<"header", nnodes, nlines, natts, catts, 0>>

\* "{} {} {} 0.0\n".format(i+1,boundary[i][0],boundary[i][1])
nodeLine(boundary, i) == <<"node", i + 1, boundary[i + 1][1], boundary[i + 1][2], "0.0">>

\* mat_id = material_id[i] if material_id is not None else 1
elemLine(connections, material_id, i) ==
    LET mat_id == IF ~material_id.isNone THEN material_id.val[i + 1] ELSE 1
    IN  <<"line", i + 1, mat_id, connections.val[i + 1][1], connections.val[i + 1][2]>>

\* key + ', ' + 'integer' if dtype == int else 'real': the conditional
\* expression binds weaker than +, so a non-integer attribute yields 'real'.
attDecl(att) ==
    IF att.dtype = "int" THEN <<"decl", att.key, "integer">> ELSE <<"decl", "real">>

\* '%d' % (i+1), then ' ' + str(atts[key][i]) for every key
attRow(atts, i) == <<"row", i + 1, [k \in 1..Len(atts) |-> atts[k].values[i + 1]]>>

\* assert np.shape(atts[key])[0] >= count
attLengthsOk(atts, count) == \A k \in 1..Len(atts) : Len(atts[k].values) >= count

attBlock(atts, count) ==
    <<<<"attcount", Len(atts)>>>>
    \o [k \in 1..Len(atts) |-> attDecl(atts[k])]
    \o [i \in 1..count |-> attRow(atts, i - 1)]

_writeLineAVS(boundary, connections, material_id, node_atts, cell_atts) ==
    LET nnodes == Len(boundary)
        nlines == shape0(connections)
        natts == shape0(node_atts)
        catts == shape0(cell_atts)
        geometry == <<headerLine(nnodes, nlines, natts, catts)>>
                    \o [i \in 1..nnodes |-> nodeLine(boundary, i - 1)]
                    \o [i \in 1..nlines |-> elemLine(connections, material_id, i - 1)]
        withNodeAtts == IF natts > 0 THEN geometry \o attBlock(node_atts.val, nnodes)
                        ELSE geometry
        withCellAtts == IF catts > 0 THEN withNodeAtts \o attBlock(cell_atts.val, nlines)
                        ELSE withNodeAtts
    IN  IF ~material_id.isNone /\ Len(material_id.val) < nlines
        THEN [raised |-> "AssertionError: material ID count", opened |-> FALSE,
              lines |-> <<>>]
        ELSE IF natts > 0 /\ ~attLengthsOk(node_atts.val, nnodes)
        THEN [raised |-> "AssertionError: node attribute length", opened |-> TRUE,
              lines |-> geometry]
        ELSE IF catts > 0 /\ ~attLengthsOk(cell_atts.val, nlines)
        THEN [raised |-> "AssertionError: cell attribute length", opened |-> TRUE,
              lines |-> withNodeAtts]
        ELSE [raised |-> NoError, opened |-> TRUE,
              lines |-> withCellAtts \o <<<<"blank">>>>]

\* open(outfile,'w') creates or truncates outfile; what was written before an
\* exception stays in it.
writeFile(fs, name, content) == (name :> content) @@ fs

exists(fs, name) == name \in DOMAIN fs

(***************************************************************************)
(* The mesh kernel.  A kernel failure ends the call with an exception at   *)
(* the first command of the step that was about to be issued.              *)
(***************************************************************************)
issue(cmds) == kernel \o cmds

KernelPcs ==
    [f \in {"generateComplexFacesets", "stackLayers", "addElevation", "addAttribute",
            "generateFaceSetsNaive", "buildUniformTriplane", "buildRefinedTriplane"} |->
        CASE f = "generateComplexFacesets" -> {"written", "classified", "dumped"}
          [] f = "stackLayers" -> {"read", "loop", "stack"}
          [] f = "addElevation" -> {"dumped"}
          [] f = "addAttribute" -> {"dumped", "layer", "finish"}
          [] f = "generateFaceSetsNaive" -> {"script"}
          [] f = "buildUniformTriplane" -> {"written", "refine", "smooth", "converge", "dump"}
          [] f = "buildRefinedTriplane" -> {"call"}]

KernelFailure ==
    /\ fn \in DOMAIN KernelPcs
    /\ pc \in KernelPcs[fn]
    /\ raised = NoError
    /\ raised' = "KernelError"
    /\ pc' = "raised"
    /\ kernel' = Append(kernel, "failed")
    /\ UNCHANGED <<fn, args, loc, files>>

(***************************************************************************)
(* generateComplexFacesets                                                 *)
(***************************************************************************)
MaxNodes == 3

MaxMat == 3

\* A boundary of n points, and its closed polyline of n segments.
Line(n) == [i \in 1..n |-> <<i - 1, 0>>]

RECURSIVE sortedSeq(_)
sortedSeq(S) == IF S = {} THEN <<>> ELSE <<Min(S)>> \o sortedSeq(S \ {Min(S)})

\* np.unique: the distinct values, ascending
unique(a) == sortedSeq(Range(a))

shiftToOne_noShift(a) == a

\* deepcopy(boundary_attributes) - np.min(boundary_attributes) + 1
shiftToOne(a) == [i \in DOMAIN a |-> a[i] - Min(Range(a)) + 1]

\* np.all(np.unique(b) == np.array(range(1,np.size(np.unique(b))+1)))
isSequential(b) == LET u == unique(b) IN \A i \in 1..Len(u) : u[i] = i

\* The layer-type markers of the stacked mesh's nodes: top, bottom, neither.
TopLayer == -2

BottomLayer == -1

LayerTyps == {TopLayer, BottomLayer, 0}

\* An exterior face of the volumetric mesh, by what the kernel's selections
\* and its map interpolation read of it: the layer-type markers of its nodes
\* and the boundary segment it maps to once both are flattened to z = 0.
\* The mesh holds one face of every kind on every segment.
Faces(nlines) == [layertyp : (SUBSET LayerTyps) \ {{}}, nearest : 1..nlines]

\* pset.eltset(membership=...) of the nodes whose layertyp equals marker
eltset(faces, marker, membership) ==
    IF membership = "exclusive" THEN {f \in faces : f.layertyp = {marker}}
    ELSE {f \in faces : marker \in f.layertyp}

\* mo.eltset_attribute(att, value): the elements whose attribute equals value
eltset_attribute(att, value) == {f \in DOMAIN att : att[f] = value}

\* mo.setatt(att, value, stride=['eltset','get',S])
setatt(att, value, S) == [f \in DOMAIN att |-> IF f \in S THEN value ELSE att[f]]

\* mo.interpolate('map', att, src, srcatt, stride=['eltset','get',S])
interpolateMap(att, srcatt, S) ==
    [f \in DOMAIN att |-> IF f \in S THEN srcatt[f.nearest] ELSE att[f]]

\* lg.read(boundary_file): the segments' material ids and cell attribute
readItetclr(lines) ==
    LET segs == SelectSeq(lines, LAMBDA l : l[1] = "line")
    IN  [e \in 1..Len(segs) |-> segs[e][3]]

readCellAtt(lines) ==
    LET rows == SelectSeq(lines, LAMBDA l : l[1] = "row")
    IN  [e \in 1..Len(rows) |-> rows[e][3][1]]

bndryOffset_three(itetclr) == [e \in DOMAIN itetclr |-> itetclr[e] + 3]

\* cmo_bndry.math('add','itetclr',value=2,...)
bndryOffset(itetclr) == [e \in DOMAIN itetclr |-> itetclr[e] + 2]

\* faceset_count = np.size(np.unique(boundary_attributes)) + 2
faceset_count0(boundary_attributes) == Len(unique(boundary_attributes)) + 2

facesetName(ss_id) == "ss" \o ToString(ss_id) \o "_fs.faceset"

boundary_file == "_boundary_line_colors.inp"

MatArrays(lo, hi) ==
    {a \in SeqsUpTo(1..MaxMat, lo, hi) \cup {<<1, 3, 2>>, <<1, 4, 3>>} :
        lo <= Len(a) /\ Len(a) <= hi}

FacesetArgs ==
    UNION {
        [boundary : {Line(n)},
         isdict : {FALSE},
         all : MatArrays(n - 1, n + 1) \ {<<>>},
         top : {None},
         outfile : {"mesh.exo"}, mesh_file : {"stacked.inp"}]
        \cup
        [boundary : {Line(n)},
         isdict : {TRUE},
         all : MatArrays(n - 1, n + 1) \ {<<>>},
         top : {None} \cup {Some(t) : t \in SeqsUpTo({1, 2}, n - 1, n) \ {<<>>}},
         outfile : {"mesh.exo"}, mesh_file : {"stacked.inp"}]
        : n \in 1..MaxNodes}

InitFacesets ==
    /\ fn = "generateComplexFacesets"
    /\ pc = "start"
    /\ args \in FacesetArgs
    /\ loc = [_cleanup |-> <<>>, has_top |-> FALSE, cell_atts |-> None,
              boundary_attributes |-> <<>>, id_side |-> <<>>, faceset_count |-> 0,
              ss_id |-> 0, _all_facesets |-> <<>>]
    /\ kernel = <<>>
    /\ files = [f \in {args.mesh_file} |-> <<<<"mesh">>>>]
    /\ raised = NoError

\* lines 649-667: unpack facesets, shift the ids, check them
GCF_Validate ==
    /\ fn = "generateComplexFacesets" /\ pc = "start"
    /\ LET has_top == args.isdict /\ ~args.top.isNone
           cell_atts == IF has_top
                        THEN Some(<<[key |-> "ioutlet", dtype |-> "int",
                                     values |-> args.top.val]>>)
                        ELSE None
           boundary_attributes == shiftToOne(args.all)
       IN  /\ loc' = [loc EXCEPT !.has_top = has_top, !.cell_atts = cell_atts,
                                 !.boundary_attributes = boundary_attributes]
           /\ IF isSequential(boundary_attributes)
              THEN pc' = "validated" /\ raised' = raised
              ELSE pc' = "raised" /\ raised' = "AssertionError: non-sequential values"
    /\ UNCHANGED <<fn, args, kernel, files>>

\* lines 669-674: write the boundary with its material ids
GCF_WriteBoundary ==
    /\ fn = "generateComplexFacesets" /\ pc = "validated"
    /\ LET conn == generateLineConnectivity(args.boundary, TRUE)
           w == _writeLineAVS(args.boundary, Some(conn.value),
                              Some(loc.boundary_attributes), None, loc.cell_atts)
       IN  /\ files' = IF w.opened THEN writeFile(files, boundary_file, w.lines) ELSE files
           /\ raised' = w.raised
           /\ IF w.raised = NoError
              THEN pc' = "written" /\ loc' = [loc EXCEPT !._cleanup = Append(@, boundary_file)]
              ELSE pc' = "raised" /\ loc' = loc
    /\ UNCHANGED <<fn, args, kernel>>

set_ilayer_exclusive(faces) ==
    setatt([f \in faces |-> 0], 1, eltset(faces, TopLayer, "exclusive"))

\* lines 757-761: ilayer is 0, then 1 on the faces with a node on the top
\* layer, then 0 again on the faces with every node on it
set_ilayer(faces) ==
    setatt(setatt([f \in faces |-> 0], 1, eltset(faces, TopLayer, "inclusive")),
           0, eltset(faces, TopLayer, "exclusive"))

\* lines 693-772: the side-id of every exterior face
classify(faces, lines, boundary_attributes, has_top) ==
    LET itetclr == bndryOffset(readItetclr(lines))
        ptopExclusive == eltset(faces, TopLayer, "exclusive")
        pbotExclusive == eltset(faces, BottomLayer, "exclusive")
        side0 == [f \in faces |-> 3]
        side1 == setatt(setatt(side0, 2, ptopExclusive), 1, pbotExclusive)
        esides == eltset_attribute(side1, 3)
        side2 == interpolateMap(side1, itetclr, esides)
        ioutlet == IF has_top
                   THEN interpolateMap([f \in faces |-> 0], readCellAtt(lines), esides)
                   ELSE [f \in faces |-> 0]
        side3 == setatt(setatt(side2, 2, ptopExclusive), 1, pbotExclusive)
        count0 == faceset_count0(boundary_attributes)
        ilayer == set_ilayer(faces)
        e_out1 == eltset_attribute(ilayer, 1) \cap eltset_attribute(ioutlet, 2)
    IN  IF has_top
        THEN [id_side |-> setatt(side3, count0 + 1, e_out1), faceset_count |-> count0 + 1]
        ELSE [id_side |-> side3, faceset_count |-> count0]

GCF_Classify ==
    /\ fn = "generateComplexFacesets" /\ pc = "written"
    /\ LET c == classify(Faces(Len(args.boundary)), files[boundary_file],
                         loc.boundary_attributes, loc.has_top)
       IN  loc' = [loc EXCEPT !.id_side = c.id_side, !.faceset_count = c.faceset_count,
                              !.ss_id = 1]
    /\ kernel' = issue(<<"read", "read", "extract_surfmesh", "setatt id_side",
                         "interpolate map id_side">>
                       \o (IF loc.has_top THEN <<"interpolate map ioutlet", "setatt id_side top">>
                           ELSE <<>>))
    /\ pc' = "classified"
    /\ UNCHANGED <<fn, args, files, raised>>

\* lines 775-789: one faceset file per side-id
GCF_DumpFaceset ==
    /\ fn = "generateComplexFacesets" /\ pc = "classified"
    /\ loc.ss_id <= loc.faceset_count
    /\ LET fname == facesetName(loc.ss_id)
           e_keep == eltset_attribute(loc.id_side, loc.ss_id)
       IN  /\ files' = writeFile(files, fname, e_keep)
           /\ loc' = [loc EXCEPT !.ss_id = @ + 1, !._all_facesets = Append(@, fname)]
    /\ kernel' = issue(<<"dump avs2">>)
    /\ pc' = IF loc.ss_id = loc.faceset_count THEN "dumped" ELSE "classified"
    /\ UNCHANGED <<fn, args, raised>>

\* lines 791-796: the Exodus export; _cleanup is filled and never used
GCF_DumpExodus ==
    /\ fn = "generateComplexFacesets" /\ pc = "dumped"
    /\ kernel' = issue(<<"dump exo">>)
    /\ files' = writeFile(files, args.outfile, loc._all_facesets)
    /\ loc' = [loc EXCEPT !._cleanup = @ \o loc._all_facesets]
    /\ pc' = "done"
    /\ UNCHANGED <<fn, args, raised>>

NextFacesets ==
    \/ GCF_Validate
    \/ GCF_WriteBoundary
    \/ GCF_Classify
    \/ GCF_DumpFaceset
    \/ GCF_DumpExodus
    \/ KernelFailure

SpecFacesets == InitFacesets /\ [][NextFacesets]_vars

NonSequential == "AssertionError: non-sequential values"

\* The distinct ids of a, shifted so that the least is 1, are 1..k with no gap.
Contiguous(a) ==
    LET S == Range(a)
        m == Min(S)
    IN  {x - m + 1 : x \in S} = 1..Cardinality(S)

\* C2: generateComplexFacesets accepts the boundary material ids exactly when,
\* shifted to a minimum of 1, their distinct values are 1..k with no gap, and
\* raises the non-sequential-values error otherwise; [1,3,2] is accepted and
\* [1,4,3] is rejected.
C2_ContiguityCheck ==
    (fn = "generateComplexFacesets" /\ pc # "start") =>
        /\ (raised = NonSequential) <=> ~Contiguous(args.all)
        /\ args.all = <<1, 3, 2>> => raised # NonSequential
        /\ args.all = <<1, 4, 3>> => raised = NonSequential

C2_Witness ==
    /\ fn = "generateComplexFacesets" /\ pc = "raised"
    /\ args.all = <<1, 4, 3>>
    /\ raised = NonSequential

\* The faceset files in the working directory.
FacesetFiles == {n \in DOMAIN files : \E i \in 1..(MaxNodes + MaxMat + 4) : n = facesetName(i)}

\* C3: after generateComplexFacesets has run with k distinct boundary material
\* ids, exactly k+2 faceset files are written (k+3 with a top split), every
\* exterior face carries one side-id in 1..faceset_count, and the faceset files
\* are pairwise disjoint and together hold every exterior face.
C3_FacesetsPartition ==
    (fn = "generateComplexFacesets" /\ pc = "done") =>
        LET k == Cardinality(Range(args.all))
            count == IF args.isdict /\ ~args.top.isNone THEN k + 3 ELSE k + 2
            faces == Faces(Len(args.boundary))
        IN  /\ loc.faceset_count = count
            /\ FacesetFiles = {facesetName(i) : i \in 1..count}
            /\ \A f \in faces : loc.id_side[f] \in 1..count
            /\ \A f \in faces :
                  Cardinality({i \in 1..count : f \in files[facesetName(i)]}) = 1
            /\ \A i, j \in 1..count :
                  i # j => files[facesetName(i)] \cap files[facesetName(j)] = {}
            /\ UNION {files[facesetName(i)] : i \in 1..count} = faces

C3_Witness ==
    /\ fn = "generateComplexFacesets" /\ pc = "done"
    /\ loc.has_top
    /\ Cardinality(Range(args.all)) = 2
    /\ loc.faceset_count = 5
    /\ \A i \in 1..5 : files[facesetName(i)] # {}

\* C14 (as the claim states it): with a top split the trailing id k+3 is on
\* exactly the faces whose nodes are all on the top layer and whose boundary
\* segment has outlet value 2.
C14_ExclusiveTop ==
    (fn = "generateComplexFacesets" /\ pc \in {"classified", "dumped", "done"} /\ loc.has_top) =>
        LET k == Cardinality(Range(args.all))
        IN  \A f \in Faces(Len(args.boundary)) :
                loc.id_side[f] = k + 3 <=>
                    (f.layertyp = {TopLayer} /\ args.top.val[f.nearest] = 2)

\* C14 (amended): with a top split the trailing id k+3 is on exactly the
\* faces that have a node on the top layer but not all of them, and whose
\* boundary segment has outlet value 2; no face with every node on the top
\* layer has it.
C14_TopLayerSides ==
    (fn = "generateComplexFacesets" /\ pc \in {"classified", "dumped", "done"} /\ loc.has_top) =>
        LET k == Cardinality(Range(args.all))
        IN  /\ loc.faceset_count = k + 3
            /\ \A f \in Faces(Len(args.boundary)) :
                  loc.id_side[f] = k + 3 <=>
                      (TopLayer \in f.layertyp /\ f.layertyp # {TopLayer}
                          /\ args.top.val[f.nearest] = 2)

C14_Witness ==
    /\ fn = "generateComplexFacesets" /\ pc = "done" /\ loc.has_top
    /\ args.top.val = <<2, 1>>
    /\ \E f \in Faces(2) : f.layertyp = {TopLayer, 0} /\ f.nearest = 1
                           /\ loc.id_side[f] = Cardinality(Range(args.all)) + 3
    /\ \E f \in Faces(2) : f.layertyp = {TopLayer} /\ f.nearest = 1 /\ loc.id_side[f] = 2

(***************************************************************************)
(* _writeLineAVS called on its own, with node and cell attributes of       *)
(* either dtype, and arrays that may be one value short.                   *)
(***************************************************************************)
MaxAtts == 2

AttKeys == {"imt", "elev", "zone"}

\* The dictionaries of at most MaxAtts attributes over count items: keys in
\* insertion order, every array of length count, or of count - 1 if short.
AttDicts(count) ==
    {None} \cup
    {Some([k \in 1..Len(ks) |->
              [key |-> ks[k], dtype |-> dt[k],
               values |-> [i \in 1..(IF short THEN count - 1 ELSE count) |-> 10 * k + i]]]) :
        <<ks, dt, short>> \in
            {x \in SeqsUpTo(AttKeys, 1, MaxAtts) \X SeqsUpTo({"int", "float"}, 1, MaxAtts)
                     \X BOOLEAN :
                /\ Len(x[1]) = Len(x[2])
                /\ \A i, j \in 1..Len(x[1]) : i # j => x[1][i] # x[1][j]
                /\ x[3] => count > 0}}

WriterArgs ==
    UNION {[boundary : {Line(n)}, outfile : {"line.inp"},
            connections : {Some(generateLineConnectivity(Line(n), TRUE).value)},
            material_id : {None, Some([i \in 1..n |-> 1]), Some([i \in 1..(n - 1) |-> 1])},
            node_atts : AttDicts(n), cell_atts : AttDicts(n)] : n \in 1..2}

InitWriter ==
    /\ fn = "_writeLineAVS"
    /\ pc = "start"
    /\ args \in WriterArgs
    /\ loc = [nnodes |-> 0, nlines |-> 0, natts |-> 0, catts |-> 0]
    /\ kernel = <<>>
    /\ files = <<>>
    /\ raised = NoError

\* lines 38-45
WL_Count ==
    /\ fn = "_writeLineAVS" /\ pc = "start"
    /\ loc' = [nnodes |-> Len(args.boundary), nlines |-> shape0(args.connections),
               natts |-> shape0(args.node_atts), catts |-> shape0(args.cell_atts)]
    /\ IF ~args.material_id.isNone /\ Len(args.material_id.val) < shape0(args.connections)
       THEN raised' = "AssertionError: material ID count" /\ pc' = "raised"
       ELSE raised' = raised /\ pc' = "open"
    /\ UNCHANGED <<fn, args, kernel, files>>

\* lines 47-55
WL_Geometry ==
    /\ fn = "_writeLineAVS" /\ pc = "open"
    /\ files' = writeFile(files, args.outfile,
                    <<headerLine(loc.nnodes, loc.nlines, loc.natts, loc.catts)>>
                    \o [i \in 1..loc.nnodes |-> nodeLine(args.boundary, i - 1)]
                    \o [i \in 1..loc.nlines |->
                           elemLine(args.connections, args.material_id, i - 1)])
    /\ pc' = "node_atts"
    /\ UNCHANGED <<fn, args, loc, kernel, raised>>

\* lines 57-76
WL_NodeAtts ==
    /\ fn = "_writeLineAVS" /\ pc = "node_atts"
    /\ IF loc.natts = 0
       THEN pc' = "cell_atts" /\ UNCHANGED <<files, raised>>
       ELSE IF ~attLengthsOk(args.node_atts.val, loc.nnodes)
       THEN raised' = "AssertionError: node attribute length" /\ pc' = "raised" /\ files' = files
       ELSE /\ files' = [files EXCEPT ![args.outfile] =
                            @ \o attBlock(args.node_atts.val, loc.nnodes)]
            /\ pc' = "cell_atts" /\ raised' = raised
    /\ UNCHANGED <<fn, args, loc, kernel>>

\* lines 78-97
WL_CellAtts ==
    /\ fn = "_writeLineAVS" /\ pc = "cell_atts"
    /\ IF loc.catts = 0
       THEN pc' = "close" /\ UNCHANGED <<files, raised>>
       ELSE IF ~attLengthsOk(args.cell_atts.val, loc.nlines)
       THEN raised' = "AssertionError: cell attribute length" /\ pc' = "raised" /\ files' = files
       ELSE /\ files' = [files EXCEPT ![args.outfile] =
                            @ \o attBlock(args.cell_atts.val, loc.nlines)]
            /\ pc' = "close" /\ raised' = raised
    /\ UNCHANGED <<fn, args, loc, kernel>>

\* line 99
WL_Close ==
    /\ fn = "_writeLineAVS" /\ pc = "close"
    /\ files' = [files EXCEPT ![args.outfile] = @ \o <<<<"blank">>>>]
    /\ pc' = "done"
    /\ UNCHANGED <<fn, args, loc, kernel, raised>>

NextWriter ==
    \/ WL_Count
    \/ WL_Geometry
    \/ WL_NodeAtts
    \/ WL_CellAtts
    \/ WL_Close

SpecWriter == InitWriter /\ [][NextWriter]_vars

\* The attribute block as the format has it: the count, one declaration
\* 'name, integer' or 'name, real' per attribute, one row per item.
DeclaredBlock(atts, count) ==
    IF atts.isNone THEN <<>>
    ELSE <<<<"attcount", Len(atts.val)>>>>
         \o [k \in 1..Len(atts.val) |->
                <<"decl", atts.val[k].key,
                  IF atts.val[k].dtype = "int" THEN "integer" ELSE "real">>]
         \o [i \in 1..count |->
                <<"row", i, [k \in 1..Len(atts.val) |-> atts.val[k].values[i]]>>]

\* C16: the file of a finished call holds, after the nodes and the elements,
\* the node attribute block and the cell attribute block, each with its count,
\* a declaration with the name and the type of every attribute, and one row
\* with a 1-based index per node or element.
C16_NamedDeclarations ==
    (fn = "_writeLineAVS" /\ pc = "done") =>
        LET f == files[args.outfile]
            g == 1 + loc.nnodes + loc.nlines
        IN  SubSeq(f, g + 1, Len(f)) =
                DeclaredBlock(args.node_atts, loc.nnodes)
                \o DeclaredBlock(args.cell_atts, loc.nlines) \o <<<<"blank">>>>

\* Whatever the call of the writer, what its steps leave in the file is
\* what the function writes as a whole.
WriterStepsAgree ==
    (fn = "_writeLineAVS" /\ pc \in {"done", "raised"}) =>
        LET w == _writeLineAVS(args.boundary, args.connections, args.material_id,
                               args.node_atts, args.cell_atts)
        IN  /\ raised = w.raised
            /\ w.opened = exists(files, args.outfile)
            /\ w.opened => files[args.outfile] = w.lines

(***************************************************************************)
(* stackLayers                                                             *)
(***************************************************************************)
MaxLayers == 3

Offsets == {0, 10, 20}

MatIds == {1, 2}

layerName(n) == "layer" \o ToString(n) \o ".inp"

RECURSIVE sum(_)
sum(s) == IF s = <<>> THEN 0 ELSE s[1] + sum(Tail(s))

InitStack ==
    /\ fn = "stackLayers"
    /\ pc = "start"
    /\ args \in [layers : SeqsUpTo(Offsets, 0, MaxLayers),
                 matids : {None} \cup {Some(m) : m \in SeqsUpTo(MatIds, 0, MaxLayers)},
                 infile : {"surface.inp"}, outfile : {"stacked.inp"}]
    /\ loc = [layers |-> args.layers, matids |-> args.matids, stack_files |-> <<>>,
              i |-> 0, zic |-> 0]
    /\ kernel = <<>>
    /\ files = [f \in {args.infile} |-> [zic |-> 0]]
    /\ raised = NoError

\* ['layer%d.inp' % (len(layers)-i) for i in range(len(layers))]
stack_files(layers) == [i \in 1..Len(layers) |-> layerName(Len(layers) - (i - 1))]

\* lines 284-291: put 0 in front of the thicknesses, and of the material ids
SL_Normalize ==
    /\ fn = "stackLayers" /\ pc = "start"
    /\ IF Len(loc.layers) = 0
       THEN raised' = "IndexError" /\ pc' = "raised" /\ loc' = loc
       ELSE IF loc.layers[1] # 0
       THEN IF loc.matids.isNone
            THEN raised' = "TypeError" /\ pc' = "raised"
                 /\ loc' = [loc EXCEPT !.layers = <<0>> \o @]
            ELSE LET layers == <<0>> \o loc.layers
                     matids == <<0>> \o loc.matids.val
                 IN  IF Len(layers) = Len(matids)
                     THEN /\ raised' = raised /\ pc' = "read"
                          /\ loc' = [loc EXCEPT !.layers = layers, !.matids = Some(matids),
                                                !.stack_files = stack_files(layers)]
                     ELSE /\ raised' = "AssertionError: len(layers) == len(matids)"
                          /\ pc' = "raised"
                          /\ loc' = [loc EXCEPT !.layers = layers, !.matids = Some(matids)]
       ELSE /\ raised' = raised /\ pc' = "read"
            /\ loc' = [loc EXCEPT !.stack_files = stack_files(loc.layers)]
    /\ UNCHANGED <<fn, args, kernel, files>>

\* line 293: motmp_top = lg.read(infile)
SL_Read ==
    /\ fn = "stackLayers" /\ pc = "read"
    /\ kernel' = issue(<<"read">>)
    /\ loc' = [loc EXCEPT !.zic = files[args.infile].zic, !.i = 0]
    /\ pc' = "loop"
    /\ UNCHANGED <<fn, args, files, raised>>

math_sub_fromInput(zic, offset) == files[args.infile].zic - offset

\* motmp_top.math('sub','zic',value=offset): zic of motmp_top itself is lowered
math_sub(zic, offset) == zic - offset

\* lines 295-297: one layer surface per offset
SL_Layer ==
    /\ fn = "stackLayers" /\ pc = "loop"
    /\ LET offset == loc.layers[loc.i + 1]
           zic == math_sub(loc.zic, offset)
       IN  /\ loc' = [loc EXCEPT !.zic = zic, !.i = @ + 1]
           /\ files' = writeFile(files, layerName(loc.i + 1), [zic |-> zic])
    /\ kernel' = issue(<<"math sub zic", "dump">>)
    /\ pc' = IF loc.i + 1 = Len(loc.layers) THEN "stack" ELSE "loop"
    /\ UNCHANGED <<fn, args, raised>>

\* lines 299-310: stack the layer files, fill, write the mesh
SL_Stack ==
    /\ fn = "stackLayers" /\ pc = "stack"
    /\ kernel' = issue(<<"delete", "create", "stack_layers", "dump", "stack_fill",
                         "resetpts_itp", "addatt cell_vol", "dump">>)
    /\ files' = writeFile(writeFile(files, "tmp_layers.inp", [zic |-> 0]),
                          args.outfile, [zic |-> 0])
    /\ pc' = "done"
    /\ UNCHANGED <<fn, args, loc, raised>>

NextStack ==
    \/ SL_Normalize
    \/ SL_Read
    \/ SL_Layer
    \/ SL_Stack
    \/ KernelFailure

SpecStack == InitStack /\ [][NextStack]_vars

LayerFiles == {n \in DOMAIN files : \E i \in 1..(MaxLayers + 2) : n = layerName(i)}

\* The distance between the highest and the lowest layer surface.
Extent == LET Z == {files[n].zic : n \in LayerFiles} IN Max(Z) - Min(Z)

\* C4 (as the claim states it): one layer surface per thickness offset, each
\* the input surface lowered by that layer's own offset; for [0, 10, 20] three
\* layer surfaces with a vertical extent of 20.
C4_OwnOffset ==
    (fn = "stackLayers" /\ pc = "done") =>
        /\ LayerFiles = {layerName(i) : i \in 1..Len(loc.layers)}
        /\ \A i \in 1..Len(loc.layers) :
              files[layerName(i)].zic = files[args.infile].zic - loc.layers[i]
        /\ args.layers = <<0, 10, 20>> => Cardinality(LayerFiles) = 3 /\ Extent = 20

\* C4 (amended): one layer surface per thickness offset, the i-th being the
\* input surface lowered by the sum of the first i offsets; for [0, 10, 20]
\* three layer surfaces with a vertical extent of 30.
C4_CumulativeOffset ==
    (fn = "stackLayers" /\ pc = "done") =>
        /\ LayerFiles = {layerName(i) : i \in 1..Len(loc.layers)}
        /\ \A i \in 1..Len(loc.layers) :
              files[layerName(i)].zic =
                  files[args.infile].zic - sum(SubSeq(loc.layers, 1, i))
        /\ args.layers = <<0, 10, 20>> => Cardinality(LayerFiles) = 3 /\ Extent = 30

C4_Witness ==
    /\ fn = "stackLayers" /\ pc = "done"
    /\ args.layers = <<0, 10, 20>>
    /\ files[layerName(3)].zic = -30

\* C7: a call of stackLayers that has issued kernel commands has a first
\* thickness of 0 and as many thicknesses as material ids.
C7_StackInvariant ==
    (fn = "stackLayers" /\ kernel # <<>> /\ ~loc.matids.isNone) =>
        /\ loc.layers[1] = 0
        /\ Len(loc.layers) = Len(loc.matids.val)

(***************************************************************************)
(* getFacesetsFromCoordinates                                              *)
(***************************************************************************)
MaxBoundary == 3

MaxQueries == 3

\* A boundary of n points two units apart, so that a query can lie on a
\* point or halfway between two of them.
Spaced(n) == [i \in 1..n |-> <<2 * (i - 1), 0>>]

QueryPoints(n) == {<<x, 0>> : x \in 0..(2 * (n - 1))}

dist2(p, q) == (p[1] - q[1]) * (p[1] - q[1]) + (p[2] - q[2]) * (p[2] - q[2])

\* distance.cdist([c], boundary[:,:2]).argmin(): the first index of the least
\* distance, 0-based
argmin_cdist(c, boundary) ==
    (CHOOSE i \in 1..Len(boundary) :
        /\ \A j \in 1..Len(boundary) : dist2(c, boundary[i]) <= dist2(c, boundary[j])
        /\ \A j \in 1..(i - 1) : dist2(c, boundary[j]) > dist2(c, boundary[i])) - 1

RECURSIVE insertDescending(_, _)
insertDescending(x, s) ==
    IF s = <<>> THEN <<x>>
    ELSE IF x >= s[1] THEN <<x>> \o s
    ELSE <<s[1]>> \o insertDescending(x, Tail(s))

RECURSIVE sortReverse(_)
\* fs.sort(reverse=True)
sortReverse(s) == IF s = <<>> THEN <<>> ELSE insertDescending(s[1], sortReverse(Tail(s)))

sliceAssign_inclusive(a, lo, hi, v) ==
    [p \in DOMAIN a |-> IF lo <= p - 1 /\ p - 1 <= hi THEN v ELSE a[p]]

\* a[lo:hi] = v, for 0 <= lo and 0 <= hi
sliceAssign(a, lo, hi, v) ==
    [p \in DOMAIN a |-> IF lo <= p - 1 /\ p - 1 < hi THEN v ELSE a[p]]

\* The ways to hand over at most MaxQueries coordinates: as a list, or as a
\* dictionary of lists.
CoordsArgs(n) ==
    LET lists == SeqsUpTo(QueryPoints(n), 0, MaxQueries)
    IN  {<<[key |-> "all", coords |-> l]>> : l \in lists}
        \cup {<<[key |-> "all", coords |-> l], [key |-> "top", coords |-> m]>> :
                 <<l, m>> \in {lm \in lists \X lists : Len(lm[1]) + Len(lm[2]) <= MaxQueries}}

\* The 10-point boundary with queries nearest to the indices 2, 7 and 9.
ExampleLists ==
    {<<<<4, 0>>, <<14, 0>>>>, <<<<14, 0>>, <<4, 0>>>>,
     <<<<4, 0>>, <<14, 0>>, <<18, 0>>>>, <<<<18, 0>>, <<4, 0>>, <<14, 0>>>>,
     <<<<5, 0>>, <<13, 0>>, <<18, 0>>>>}

InitCoords ==
    /\ fn = "getFacesetsFromCoordinates"
    /\ pc = "start"
    /\ args \in UNION {[boundary : {Spaced(n)}, islist : BOOLEAN, coords : CoordsArgs(n)] :
                          n \in 1..MaxBoundary}
                \cup [boundary : {Spaced(10)}, islist : {TRUE},
                      coords : {<<[key |-> "all", coords |-> l]>> : l \in ExampleLists}]
    /\ (args.islist => Len(args.coords) = 1)
    /\ loc = [facesets |-> <<>>, key |-> 1, mat_ids |-> <<>>, fs |-> <<>>, i |-> 0,
              returned |-> None]
    /\ kernel = <<>>
    /\ files = <<>>
    /\ raised = NoError

\* lines 828-836: the nearest boundary index of every coordinate, descending
GF_Nearest ==
    /\ fn = "getFacesetsFromCoordinates" /\ pc = "start"
    /\ LET c == args.coords[loc.key].coords
           fs == [q \in 1..Len(c) |-> argmin_cdist(c[q], args.boundary)]
       IN  loc' = [loc EXCEPT !.mat_ids = [p \in 1..Len(args.boundary) |-> 1],
                              !.fs = sortReverse(fs), !.i = 0]
    /\ pc' = "fill"
    /\ UNCHANGED <<fn, args, kernel, files, raised>>

\* lines 840-841: mat_ids[fs[-1]:fs[i]] = i+2
GF_Fill ==
    /\ fn = "getFacesetsFromCoordinates" /\ pc = "fill"
    /\ loc.i < Len(loc.fs)
    /\ loc' = [loc EXCEPT !.mat_ids = sliceAssign(@, loc.fs[Len(loc.fs)],
                                                  loc.fs[loc.i + 1], loc.i + 2),
                          !.i = @ + 1]
    /\ UNCHANGED <<fn, pc, args, kernel, files, raised>>

\* line 843: facesets[key] = mat_ids, then the next key; the function ends
\* without a return statement
GF_Store ==
    /\ fn = "getFacesetsFromCoordinates" /\ pc = "fill"
    /\ loc.i = Len(loc.fs)
    /\ loc' = [loc EXCEPT !.facesets = Append(@, [key |-> args.coords[loc.key].key,
                                                   mat_ids |-> loc.mat_ids]),
                          !.key = @ + 1]
    /\ pc' = IF loc.key = Len(args.coords) THEN "done" ELSE "start"
    /\ UNCHANGED <<fn, args, kernel, files, raised>>

NextCoords ==
    \/ GF_Nearest
    \/ GF_Fill
    \/ GF_Store

SpecCoords == InitCoords /\ [][NextCoords]_vars

\* The nearest boundary indices of a list of coordinates, and whether they
\* are distinct.
Markers(coords) == {argmin_cdist(coords[q], args.boundary) : q \in 1..Len(coords)}

DistinctMarkers(coords) == Cardinality(Markers(coords)) = Len(coords)

\* The number of markers at or below position p (0-based).
Rank(M, p) == Cardinality({m \in M : m <= p})

C5_Descending ==
    (fn = "getFacesetsFromCoordinates" /\ pc = "done") =>
      /\ loc.returned = None
      /\ \A k \in 1..Len(args.coords) :
            DistinctMarkers(args.coords[k].coords) =>
                LET M == Markers(args.coords[k].coords)
                    a == loc.facesets[k].mat_ids
                IN  /\ Len(a) = Len(args.boundary)
                    /\ \A p \in 0..(Len(a) - 1) :
                        a[p + 1] = IF M # {} /\ Min(M) <= p /\ p < Max(M)
                                   THEN Cardinality(M) - Rank(M, p) + 1 ELSE 1

C5_Witness ==
    /\ fn = "getFacesetsFromCoordinates" /\ pc = "done"
    /\ Len(args.boundary) = 10
    /\ Markers(args.coords[1].coords) = {2, 7, 9}
    /\ loc.facesets[1].mat_ids = <<1, 1, 3, 3, 3, 3, 3, 2, 2, 1>>

\* C17: every array getFacesetsFromCoordinates builds passes the check of
\* generateComplexFacesets: shifted to a minimum of 1, its distinct values
\* are 1..k without a gap.
C17_FacesetsAreSequential ==
    (fn = "getFacesetsFromCoordinates" /\ pc = "done") =>
        \A k \in 1..Len(loc.facesets) :
            isSequential(shiftToOne(loc.facesets[k].mat_ids))

(***************************************************************************)
(* The no-data fill of addElevation and addAttribute                       *)
(***************************************************************************)
MaxCells == 4

MaxVal == 2

\* np.nan, and the values of a finite cell
NaN == -1

Finite == 0..MaxVal

\* ==: nan equals nothing, itself included
eq(a, b) == a # NaN /\ b # NaN /\ a = b

\* The cells <<row, col>> of a raster; np.meshgrid gives cell <<r, c>> the
\* point (x, y) = (c, r).
Cells(nrows, ncols) == (0..(nrows - 1)) \X (0..(ncols - 1))

Rasters(maxcells, values) ==
    UNION {[Cells(nr, nc) -> values] :
              <<nr, nc>> \in {s \in (1..maxcells) \X (1..maxcells) : s[1] * s[2] <= maxcells}}

sentinelToNaN_skipped(data, no_data_value) == data

\* data[data == no_data_value] = np.nan
sentinelToNaN(data, no_data_value) ==
    [c \in DOMAIN data |-> IF eq(data[c], no_data_value) THEN NaN ELSE data[c]]

\* np.ma.masked_invalid(data).mask
masked_invalid(data) == {c \in DOMAIN data : data[c] = NaN}

\* The valid cells nearest to cell c; griddata may take any of them.
nearestCells(c, valid) == {v \in valid : \A w \in valid : dist2(c, v) <= dist2(c, w)}

\* The rasters that give every cell in cells one of its candidate values.
RECURSIVE choices(_, _)
choices(cells, candidates) ==
    IF cells = {} THEN {<<>>}
    ELSE LET c == CHOOSE x \in cells : TRUE
         IN  {(c :> x) @@ g : x \in candidates[c], g \in choices(cells \ {c}, candidates)}

\* interpolate.griddata((x1, y1), newarr.ravel(), (xx, yy), method='nearest')
griddata_nearest(data, valid) ==
    choices(DOMAIN data,
            [c \in DOMAIN data |-> {data[v] : v \in nearestCells(c, valid)}])

\* data[data == np.nan] = no_data_value
restoreNoData(g, no_data_value) ==
    [c \in DOMAIN g |-> IF eq(g[c], NaN) THEN no_data_value ELSE g[c]]

\* lines 122-132 of addElevation: the cells outside the mask of the masked array
validElevation(dem, no_data_value) ==
    DOMAIN dem \ masked_invalid(sentinelToNaN(dem, no_data_value))

\* lines 199-210 of addAttribute: the cells outside mask = data == no_data_value
validAttribute(data, no_data_value) ==
    DOMAIN data \ {c \in DOMAIN data : eq(data[c], no_data_value)}

\* lines 122-135
fillElevation(dem, no_data_value) ==
    {restoreNoData(g, no_data_value) :
        g \in griddata_nearest(sentinelToNaN(dem, no_data_value),
                               validElevation(dem, no_data_value))}

\* lines 199-213
fillAttribute(data, no_data_value) ==
    {restoreNoData(g, no_data_value) :
        g \in griddata_nearest(sentinelToNaN(data, no_data_value),
                               validAttribute(data, no_data_value))}

(***************************************************************************)
(* addElevation                                                            *)
(***************************************************************************)
ElevationArgs(rasters, sentinels, fileouts) ==
    [data : rasters, no_data_value : sentinels,
     triplane_path : {"triplane.inp"}, fileout : fileouts]

EmptyLoc == [data |-> <<>>, layers |-> <<>>, i |-> 0, v |-> 0, bands |-> <<>>,
             _cleanup |-> <<>>]

\* lines 120-135
AE_Fill ==
    /\ fn = "addElevation" /\ pc = "start"
    /\ IF validElevation(args.data, args.no_data_value) = {}
       THEN raised' = "griddata: no points" /\ pc' = "raised" /\ loc' = loc
       ELSE /\ \E g \in fillElevation(args.data, args.no_data_value) :
                   loc' = [loc EXCEPT !.data = g]
            /\ raised' = raised /\ pc' = "filled"
    /\ UNCHANGED <<fn, args, kernel, files>>

\* lines 138-139
AE_Dump ==
    /\ fn = "addElevation" /\ pc = "filled"
    /\ files' = writeFile(files, "_temp_elev_array.dat", loc.data)
    /\ pc' = "dumped"
    /\ UNCHANGED <<fn, args, loc, kernel, raised>>

\* lines 142-164
AE_Interpolate ==
    /\ fn = "addElevation" /\ pc = "dumped"
    /\ kernel' = issue(<<"read_sheetij", "pset_attribute zic " \o
                             (IF args.no_data_value <= 0 THEN "le" ELSE "ge"),
                         "eltset", "rmpoint_eltset", "addatt z_elev", "copyatt", "setatt zic",
                         "read", "addatt z_new", "interpolate continuous", "copyatt",
                         "delatt", "delete", "dump">>)
    /\ files' = writeFile(files, IF args.fileout.isNone THEN args.triplane_path
                                 ELSE args.fileout.val, <<"triplane">>)
    /\ pc' = "interpolated"
    /\ UNCHANGED <<fn, args, loc, raised>>

removeFile(fs, name) == [n \in (DOMAIN fs) \ {name} |-> fs[n]]

\* line 165
AE_Remove ==
    /\ fn = "addElevation" /\ pc = "interpolated"
    /\ files' = removeFile(files, "_temp_elev_array.dat")
    /\ pc' = "done"
    /\ UNCHANGED <<fn, args, loc, kernel, raised>>

(***************************************************************************)
(* addAttribute.  args.data is the raster resampled to the DEM grid by      *)
(* imresize (line 195), whose cells are finite.  A layer index is          *)
(* [isint, v]: whether it is a python int, and its value.                  *)
(***************************************************************************)
MaxLayerCount == 2

LayerIndex == [isint : BOOLEAN, v : 1..MaxLayerCount]

\* layers: None, one number, or a list
LayersArgs ==
    {None}
    \cup {Some([scalar |-> TRUE, items |-> <<e>>]) : e \in LayerIndex}
    \cup {Some([scalar |-> FALSE, items |-> l]) : l \in SeqsUpTo(LayerIndex, 0, 2)}

AttributeArgs(rasters, sentinels, layersArgs, counts, elements, names) ==
    [data : rasters, no_data_value : sentinels, layers : layersArgs,
     number_of_layers : counts, elements : elements,
     attribute_name : names,
     stacked_mesh_infile : {"stacked.inp"}, outfile : {"attributed.inp"}]

\* lines 197-213
AA_Fill ==
    /\ fn = "addAttribute" /\ pc = "start"
    /\ IF validAttribute(args.data, args.no_data_value) = {}
       THEN raised' = "griddata: no points" /\ pc' = "raised" /\ loc' = loc
       ELSE /\ \E g \in fillAttribute(args.data, args.no_data_value) :
                   loc' = [loc EXCEPT !.data = g]
            /\ raised' = raised /\ pc' = "filled"
    /\ UNCHANGED <<fn, args, kernel, files>>

\* lines 216-217
AA_Dump ==
    /\ fn = "addAttribute" /\ pc = "filled"
    /\ files' = writeFile(files, "_temp_attrib_array.dat", loc.data)
    /\ pc' = "dumped"
    /\ UNCHANGED <<fn, args, loc, kernel, raised>>

\* lines 242-245: one number becomes a list, None every layer
layersList(layers, number_of_layers) ==
    IF layers.isNone
    THEN [L \in 1..number_of_layers |-> [isint |-> TRUE, v |-> L]]
    ELSE layers.val.items

\* lines 220-248: the sheet, its extrusion, the stacked mesh; then the check
\* of the layer indices
AA_Extrude ==
    /\ fn = "addAttribute" /\ pc = "dumped"
    /\ kernel' = issue(<<"read_sheetij", "extrude", "addatt esatt", "interpolate voronoi",
                         "delete", "read">>
                       \o (IF args.attribute_name.isNone THEN <<>> ELSE <<"addatt">>)
                       \o <<"information", "addatt eslayer">>)
    /\ LET layers == layersList(args.layers, args.number_of_layers)
       IN  /\ loc' = [loc EXCEPT !.layers = layers, !.i = 0,
                                 !.v = args.elements \div args.number_of_layers]
           /\ IF \A x \in 1..Len(layers) : layers[x].isint
              THEN raised' = raised /\ pc' = IF layers = <<>> THEN "finish" ELSE "layer"
              ELSE raised' = "ValueError: layers contains non-conforming data"
                   /\ pc' = "raised"
    /\ UNCHANGED <<fn, args, files>>

band_fromLayer(v, layer) == <<v * layer, v * (layer + 1)>>

\* lines 251-255: start = layer - 1, end = layer; the range v*start, v*end
band(v, layer) ==
    LET start == layer - 1
        end == layer
    IN  <<v * start, v * end>>

\* lines 250-260: the element band of one layer
AA_Layer ==
    /\ fn = "addAttribute" /\ pc = "layer"
    /\ loc' = [loc EXCEPT !.bands = Append(@, band(loc.v, loc.layers[loc.i + 1].v)),
                          !.i = @ + 1]
    /\ kernel' = issue(<<"setatt eslayer 1", "setatt eslayer band 2", "eltset_attribute",
                         "interpolate map", "math add">>)
    /\ pc' = IF loc.i + 1 = Len(loc.layers) THEN "finish" ELSE "layer"
    /\ UNCHANGED <<fn, args, files, raised>>

\* lines 262-266
AA_Finish ==
    /\ fn = "addAttribute" /\ pc = "finish"
    /\ kernel' = issue(<<"delete", "dump">>)
    /\ files' = writeFile(removeFile(files, "_temp_attrib_array.dat"), args.outfile,
                          <<"stacked">>)
    /\ pc' = "done"
    /\ UNCHANGED <<fn, args, loc, raised>>

InitFill ==
    /\ fn \in {"addElevation", "addAttribute"}
    /\ pc = "start"
    /\ IF fn = "addElevation"
       THEN args \in ElevationArgs(Rasters(MaxCells, Finite \cup {NaN}), {0, MaxVal, NaN}, {None})
       ELSE args \in AttributeArgs(Rasters(MaxCells, Finite), {0, MaxVal, NaN}, {None}, {1}, {4}, {None})
    /\ loc = EmptyLoc
    /\ kernel = <<>>
    /\ files = [f \in (IF fn = "addElevation" THEN {"triplane.inp"} ELSE {"stacked.inp"})
                    |-> <<"mesh">>]
    /\ raised = NoError

NextFill ==
    \/ AE_Fill
    \/ AE_Dump
    \/ AE_Interpolate
    \/ AE_Remove
    \/ AA_Fill
    \/ AA_Dump
    \/ AA_Extrude
    \/ AA_Layer
    \/ AA_Finish
    \/ KernelFailure

SpecFill == InitFill /\ [][NextFill]_vars

\* The cells the fill of the running stage takes as valid, and its results.
validCells(data) ==
    IF fn = "addElevation" THEN validElevation(data, args.no_data_value)
    ELSE validAttribute(data, args.no_data_value)

refill(data) ==
    IF fn = "addElevation" THEN fillElevation(data, args.no_data_value)
    ELSE fillAttribute(data, args.no_data_value)

\* C9: on a raster with a valid cell the fill leaves no cell equal to the
\* no-data value, and filling the filled raster again changes no cell.
C9_FillIdempotent ==
    (fn \in {"addElevation", "addAttribute"} /\ pc \notin {"start", "raised"}) =>
        /\ DOMAIN loc.data = DOMAIN args.data
        /\ \A c \in DOMAIN loc.data : loc.data[c] # args.no_data_value
        /\ refill(loc.data) = {loc.data}

C9_Witness ==
    /\ fn = "addAttribute" /\ pc = "filled"
    /\ DOMAIN args.data = Cells(2, 2)
    /\ Cardinality({c \in DOMAIN args.data : args.data[c] = args.no_data_value}) = 2
    /\ loc.data # args.data
    /\ refill(loc.data) = {loc.data}

(***************************************************************************)
(* The element bands of addAttribute, over element counts and layer counts *)
(* that need not divide each other.                                        *)
(***************************************************************************)
MaxElements == 6

InitBands ==
    /\ fn = "addAttribute"
    /\ pc = "start"
    /\ args \in AttributeArgs([Cells(1, 1) -> {1}], {0}, LayersArgs, 1..MaxLayerCount,
                              1..MaxElements, {None})
    /\ loc = EmptyLoc
    /\ kernel = <<>>
    /\ files = [f \in {"stacked.inp"} |-> <<"mesh">>]
    /\ raised = NoError

NextBands ==
    \/ AA_Fill
    \/ AA_Dump
    \/ AA_Extrude
    \/ AA_Layer
    \/ AA_Finish
    \/ KernelFailure

SpecBands == InitBands /\ [][NextBands]_vars

\* cmo/setatt/ mesh eslayer/ a,b 2: the elements (counted from 0) the kernel
\* selects for the range a,b, read as the half-open [a, b)
bandElements(b, elements) == {e \in 0..(elements - 1) : b[1] <= e /\ e < b[2]}

\* C15 (as the claim states it): the band of layer L is [v*(L-1), v*L), bands
\* of different layers share no element, and with the default layers every
\* element is in exactly one band.
C15_EveryElementInOneBand ==
    (fn = "addAttribute" /\ pc \in {"finish", "done"}) =>
        LET v == args.elements \div args.number_of_layers
            B(i) == bandElements(loc.bands[i], args.elements)
        IN  /\ \A i \in 1..Len(loc.layers) :
                  loc.bands[i] = <<v * (loc.layers[i].v - 1), v * loc.layers[i].v>>
            /\ \A i, j \in 1..Len(loc.layers) :
                  loc.layers[i].v # loc.layers[j].v => B(i) \cap B(j) = {}
            /\ args.layers.isNone =>
                  \A e \in 0..(args.elements - 1) :
                      Cardinality({i \in 1..Len(loc.layers) : e \in B(i)}) = 1

\* C15 (amended): with v the whole-number quotient, the band of layer L is
\* [v*(L-1), v*L), bands of different layers share no element, and with the
\* default layers the elements below v*layer_count are in exactly one band
\* each and the others in none; these are all elements when layer_count
\* divides the element count.
C15_BandsOfTheQuotient ==
    (fn = "addAttribute" /\ pc \in {"finish", "done"}) =>
        LET n == args.number_of_layers
            v == args.elements \div n
            B(i) == bandElements(loc.bands[i], args.elements)
        IN  /\ \A i \in 1..Len(loc.layers) :
                  loc.bands[i] = <<v * (loc.layers[i].v - 1), v * loc.layers[i].v>>
            /\ \A i, j \in 1..Len(loc.layers) :
                  loc.layers[i].v # loc.layers[j].v => B(i) \cap B(j) = {}
            /\ args.layers.isNone =>
                  /\ Len(loc.layers) = n
                  /\ \A e \in 0..(args.elements - 1) :
                        Cardinality({i \in 1..n : e \in B(i)}) = IF e < v * n THEN 1 ELSE 0
                  /\ args.elements % n = 0 => UNION {B(i) : i \in 1..n} = 0..(args.elements - 1)

C15_Witness ==
    /\ fn = "addAttribute" /\ pc = "done"
    /\ args.layers.isNone /\ args.number_of_layers = 2 /\ args.elements = 5
    /\ loc.bands = <<<<0, 2>>, <<2, 4>>>>

(***************************************************************************)
(* generateFaceSetsNaive                                                   *)
(***************************************************************************)
tmp_infile == "infile_tmp_get_facesets3.mlgi"

\* 'fs1_bottom.avs fs2_top.avs fs3_sides_all.avs'.split()
naive_facesets == <<"fs1_bottom.avs", "fs2_top.avs", "fs3_sides_all.avs">>

\* The items a python list takes from a string: its characters.
characters(s) ==
    IF s = tmp_infile
    THEN <<"i", "n", "f", "i", "l", "e", "_", "t", "m", "p", "_", "g", "e", "t", "_",
           "f", "a", "c", "e", "s", "e", "t", "s", "3", ".", "m", "l", "g", "i">>
    ELSE <<>>

\* list.extend(iterable)
extend(list, s) == list \o characters(s)

InitNaive ==
    /\ fn = "generateFaceSetsNaive"
    /\ pc = "start"
    /\ args \in [stacked_mesh_isMO : BOOLEAN, outfile : {"naive.exo"}]
    /\ loc = EmptyLoc
    /\ kernel = <<>>
    /\ files = <<>>
    /\ raised = NoError

\* lines 364-365
FN_Check ==
    /\ fn = "generateFaceSetsNaive" /\ pc = "start"
    /\ IF args.stacked_mesh_isMO
       THEN pc' = "checked" /\ raised' = raised
       ELSE pc' = "raised" /\ raised' = "ValueError: stacked_mesh must be a PyLaGriT mesh object"
    /\ UNCHANGED <<fn, args, loc, kernel, files>>

\* lines 367-370
FN_WriteScript ==
    /\ fn = "generateFaceSetsNaive" /\ pc = "checked"
    /\ files' = writeFile(files, tmp_infile, <<"get_facesets3">>)
    /\ pc' = "script"
    /\ UNCHANGED <<fn, args, loc, kernel, raised>>

RECURSIVE writeFiles(_, _, _)
writeFiles(fs, names, content) ==
    IF names = <<>> THEN fs
    ELSE writeFiles(writeFile(fs, Head(names), content), Tail(names), content)

\* lines 372-378: the script leaves the three faceset files the export reads
FN_Export ==
    /\ fn = "generateFaceSetsNaive" /\ pc = "script"
    /\ kernel' = issue(<<"define CMO_PRISM", "infile " \o tmp_infile,
                         "dump/exo/" \o args.outfile, "fs1_bottom.avs fs2_top.avs fs3_sides_all.avs">>)
    /\ files' = writeFile(writeFiles(files, naive_facesets, <<"faceset">>), args.outfile,
                          <<"exodus">>)
    /\ loc' = [loc EXCEPT !._cleanup = extend(naive_facesets, tmp_infile), !.i = 0]
    /\ pc' = "cleanup"
    /\ UNCHANGED <<fn, args, raised>>

\* lines 380-381: one os.remove
FN_Remove ==
    /\ fn = "generateFaceSetsNaive" /\ pc = "cleanup"
    /\ LET f == loc._cleanup[loc.i + 1]
       IN  IF exists(files, f)
           THEN /\ files' = removeFile(files, f)
                /\ loc' = [loc EXCEPT !.i = @ + 1]
                /\ pc' = IF loc.i + 1 = Len(loc._cleanup) THEN "done" ELSE "cleanup"
                /\ raised' = raised
           ELSE /\ raised' = "FileNotFoundError"
                /\ pc' = "raised"
                /\ UNCHANGED <<files, loc>>
    /\ UNCHANGED <<fn, args, kernel>>

NextNaive ==
    \/ FN_Check
    \/ FN_WriteScript
    \/ FN_Export
    \/ FN_Remove
    \/ KernelFailure

(***************************************************************************)
(* Every stage of the pipeline that validates its input or leaves files.   *)
(***************************************************************************)
InitElevation ==
    /\ fn = "addElevation"
    /\ pc = "start"
    /\ args \in ElevationArgs(Rasters(2, Finite), {0}, {None, Some("elevated.inp")})
    /\ loc = EmptyLoc
    /\ kernel = <<>>
    /\ files = [f \in {"triplane.inp"} |-> <<"mesh">>]
    /\ raised = NoError

InitAttribute ==
    /\ fn = "addAttribute"
    /\ pc = "start"
    /\ args \in AttributeArgs(Rasters(2, Finite), {0}, LayersArgs, 1..MaxLayerCount, {4, 5},
                              {None, Some("soil")})
    /\ loc = EmptyLoc
    /\ kernel = <<>>
    /\ files = [f \in {"stacked.inp"} |-> <<"mesh">>]
    /\ raised = NoError

Init ==
    \/ InitFacesets
    \/ InitStack
    \/ InitElevation
    \/ InitAttribute
    \/ InitNaive

Next ==
    \/ NextFacesets
    \/ NextStack
    \/ NextFill
    \/ NextNaive

Spec == Init /\ [][Next]_vars

\* The files a stage is given.
InputFiles ==
    CASE fn = "generateComplexFacesets" -> {args.mesh_file}
      [] fn = "stackLayers" -> {args.infile}
      [] fn = "addElevation" -> {args.triplane_path}
      [] fn = "addAttribute" -> {args.stacked_mesh_infile}
      [] OTHER -> {}

\* The file a stage is asked to produce.
OutputFiles ==
    CASE fn = "addElevation" -> {IF args.fileout.isNone THEN args.triplane_path
                                 ELSE args.fileout.val}
      [] fn \in {"generateComplexFacesets", "stackLayers", "addAttribute",
                 "generateFaceSetsNaive"} -> {args.outfile}
      [] OTHER -> {}

ValidationErrors ==
    {"AssertionError: non-sequential values",
     "ValueError: layers contains non-conforming data",
     "AssertionError: node attribute length",
     "AssertionError: cell attribute length",
     "ValueError: stacked_mesh must be a PyLaGriT mesh object"}

\* C6: when a validation failure is raised, no kernel command has been
\* issued and no file has been written.
C6_ValidationFirst ==
    raised \in ValidationErrors => kernel = <<>> /\ DOMAIN files \subseteq InputFiles

\* C8: when a stage has ended, by return or by an exception, none of the
\* scratch files it created is left.
C8_ScratchDeleted ==
    pc \in {"done", "raised"} => DOMAIN files \subseteq (InputFiles \cup OutputFiles)

(***************************************************************************)
(* buildUniformTriplane.  A kernel command is the text of one call of a    *)
(* method of the kernel session or of a mesh object.                       *)
(***************************************************************************)
MinEdges == {1, 2, 16}

\* [min_edge*i for i in [1,2,4,8,16,32,64]][::-1]
doublings == <<1, 2, 4, 8, 16, 32, 64>>

reversed(s) == [i \in 1..Len(s) |-> s[Len(s) - i + 1]]

length_scales(min_edge) == reversed([i \in 1..Len(doublings) |-> min_edge * doublings[i]])

RECURSIVE repeat(_, _)
repeat(n, cmds) == IF n = 0 THEN <<>> ELSE cmds \o repeat(n - 1, cmds)

\* motri.refine(refine_option='rivara',refine_type='edge',values=[ln],...)
refine(ln) == "refine rivara edge inclusive " \o ToString(ln)

\* lines 447-452: one pass of the scale loop
refinePass(ln) == <<refine(ln)>> \o repeat(3, <<"recon 0", "smooth">>) \o <<"rmpoint_compress">>

\* lines 456-458: one round of the closing loop
smoothRound == <<"smooth", "recon 0", "rmpoint_compress">>

convergence_twoRecons == <<"recon 0", "recon 1">>

\* lines 460-461
convergence == <<"rmpoint_compress", "recon 1", "smooth", "recon 0", "recon 1">>

UniformArgs ==
    [boundary : {Line(n) : n \in 2..MaxPolyline}, min_edge : MinEdges,
     counterclockwise : BOOLEAN, outfile : {None, Some("triplane.inp")}]

InitUniform ==
    /\ fn = "buildUniformTriplane"
    /\ pc = "start"
    /\ args \in UniformArgs
    /\ loc = [length_scales |-> <<>>, i |-> 0, returned |-> None]
    /\ kernel = <<>>
    /\ files = <<>>
    /\ raised = NoError

\* lines 413-419: the boundary polygon, with the open connectivity
BU_WritePolygon ==
    /\ fn = "buildUniformTriplane" /\ pc = "start"
    /\ LET connectivity == generateLineConnectivity(args.boundary, FALSE)
           w == _writeLineAVS(args.boundary, Some(connectivity.value), None, None, None)
       IN  files' = writeFile(files, "poly_1.inp", w.lines)
    /\ loc' = [loc EXCEPT !.length_scales = length_scales(args.min_edge)]
    /\ pc' = "written"
    /\ UNCHANGED <<fn, args, kernel, raised>>

\* lines 421-442: the coarse triangulation of the boundary nodes
BU_Triangulate ==
    /\ fn = "buildUniformTriplane" /\ pc = "written"
    /\ kernel' = issue(<<"read poly_1.inp", "create triplane", "setatt ipolydat no", "copypts",
                         "setatt imt 1", "delete", "select",
                         "triangulate " \o (IF args.counterclockwise THEN "counterclockwise"
                                            ELSE "clockwise"),
                         "setatt itetclr 1", "setatt motri 1", "resetpts_itp", "cmo/copy/mo">>)
    /\ loc' = [loc EXCEPT !.i = 0]
    /\ pc' = "refine"
    /\ UNCHANGED <<fn, args, files, raised>>

\* lines 445-452: one length scale (the select of line 445 before the first)
BU_Refine ==
    /\ fn = "buildUniformTriplane" /\ pc = "refine"
    /\ kernel' = issue((IF loc.i = 0 THEN <<"select">> ELSE <<>>)
                       \o refinePass(loc.length_scales[loc.i + 1]))
    /\ loc' = [loc EXCEPT !.i = IF loc.i + 1 = Len(loc.length_scales) THEN 0 ELSE loc.i + 1]
    /\ pc' = IF loc.i + 1 = Len(loc.length_scales) THEN "smooth" ELSE "refine"
    /\ UNCHANGED <<fn, args, files, raised>>

\* lines 455-458: for _ in range(6)
BU_Smooth ==
    /\ fn = "buildUniformTriplane" /\ pc = "smooth"
    /\ kernel' = issue(smoothRound)
    /\ loc' = [loc EXCEPT !.i = IF loc.i + 1 = 6 THEN 0 ELSE loc.i + 1]
    /\ pc' = IF loc.i + 1 = 6 THEN "converge" ELSE "smooth"
    /\ UNCHANGED <<fn, args, files, raised>>

\* lines 460-461
BU_Converge ==
    /\ fn = "buildUniformTriplane" /\ pc = "converge"
    /\ kernel' = issue(convergence)
    /\ pc' = "dump"
    /\ UNCHANGED <<fn, args, loc, files, raised>>

\* lines 466-472
BU_Dump ==
    /\ fn = "buildUniformTriplane" /\ pc = "dump"
    /\ kernel' = issue(<<"setatt ipolydat yes">>
                       \o (IF args.outfile.isNone THEN <<>> ELSE <<"dump">>))
    /\ files' = IF args.outfile.isNone THEN files
                ELSE writeFile(files, args.outfile.val, <<"triplane">>)
    /\ loc' = [loc EXCEPT !.returned = Some("motri")]
    /\ pc' = "done"
    /\ UNCHANGED <<fn, args, raised>>

NextUniform ==
    \/ BU_WritePolygon
    \/ BU_Triangulate
    \/ BU_Refine
    \/ BU_Smooth
    \/ BU_Converge
    \/ BU_Dump
    \/ KernelFailure

SpecUniform == InitUniform /\ [][NextUniform]_vars

\* The remeshing commands of a trace, reconnections of either kind alike.
Remeshing(trace) ==
    LET isRemeshing(c) == c \in {"recon 0", "recon 1", "smooth", "rmpoint_compress"}
                                \cup {refine(m * k) : m \in MinEdges, k \in Range(doublings)}
        kind(c) == IF c \in {"recon 0", "recon 1"} THEN "recon" ELSE c
        r == SelectSeq(trace, isRemeshing)
    IN  [i \in 1..Len(r) |-> kind(r[i])]

\* The passes of the scale loop at 64, 32, ..., 1 times min_edge, then six
\* rounds of smoothing, reconnection, compaction.
RECURSIVE ScalePasses(_, _)
ScalePasses(min_edge, k) ==
    IF k = 0 THEN <<>>
    ELSE <<refine(min_edge * k)>> \o repeat(3, <<"recon", "smooth">>) \o <<"rmpoint_compress">>
         \o ScalePasses(min_edge, k \div 2)

LoopsTrace(min_edge) ==
    ScalePasses(min_edge, 64) \o repeat(6, <<"smooth", "recon", "rmpoint_compress">>)

\* C11 (as the claim states it): the remeshing commands of a finished call
\* are the scale passes, the six rounds, and then two reconnections.
C11_TwoReconnections ==
    (fn = "buildUniformTriplane" /\ pc = "done") =>
        Remeshing(kernel) = LoopsTrace(args.min_edge) \o <<"recon", "recon">>

\* C11 (amended): the remeshing commands of a finished call are the scale
\* passes, the six rounds, and then a compaction, a reconnection, a smoothing
\* and two reconnections; the write, if any, is the last command.
C11_ClosingCommands ==
    (fn = "buildUniformTriplane" /\ pc = "done") =>
        /\ Remeshing(kernel) = LoopsTrace(args.min_edge)
               \o <<"rmpoint_compress", "recon", "smooth", "recon", "recon">>
        /\ ~args.outfile.isNone => kernel[Len(kernel)] = "dump"

C11_Witness ==
    /\ fn = "buildUniformTriplane" /\ pc = "done"
    /\ args.min_edge = 16
    /\ Len(Remeshing(kernel)) = 7 * 8 + 6 * 3 + 5
    /\ Remeshing(kernel)[1] = refine(1024)
    /\ kernel[Len(kernel)] = "dump"

(***************************************************************************)
(* buildRefinedTriplane.  cmd is the command script, one tuple per line:   *)
(* the fields of a '/'-separated command, or the commands of a ';'-        *)
(* separated line.  h is counted in twentieths, so that 0.05*h is a whole  *)
(* number; the values that are not multiples of 0.05*h are kept as text.   *)
(***************************************************************************)
Twentieths == {20, 40}

\* The scales of lines 570-598, in the order of the script.
Scales == <<64, 32, 16, 8>>

\* str(k*0.05*h)
str_perturb(k, h) == ToString((k * h) \div 20)

define(name, value) == <<"define", name, value>>

\* lines 508-512
defineFiles(outfile) ==
    <<define("ID", "1"), define("OUTFILE_GMV", "mesh_1.gmv"), define("OUTFILE_AVS", outfile),
      define("OUTFILE_LG", "mesh_1.lg"), define("POLY_FILE", "poly_1.inp"),
      define("LINE_FILE", "intersections_1.inp"), define("QUAD_FILE", "tmp_quad_1.inp"),
      define("EXCAVATE_FILE", "tmp_excavate_1.inp"),
      define("PRE_FINAL_FILE", "tmp_pre_final_1.inp"),
      define("PRE_FINAL_MASSAGE", "tmp_pre_final_massage_1.gmv")>>

\* lines 519-530
defineScales(h) ==
    <<define("H_SCALE", ToString(h)), define("H_EPS", "h*10**-7"),
      define("H_SCALE2", "1.5*h"), define("H_EXTRUDE", "h_extrude"),
      define("H_TRANS", "h_trans"), define("H_PRIME", "0.8*h"), define("H_PRIME2", "0.3*h"),
      define("H_SCALE3", ToString(3 * h)), define("H_SCALE8", ToString(8 * h)),
      define("H_SCALE16", ToString(16 * h)), define("H_SCALE32", ToString(32 * h)),
      define("H_SCALE64", ToString(64 * h))>>

perturbName_asUsed(k) == "PERTURB" \o ToString(k)

\* 'define / PURTURB8 / ' ...
perturbName(k) == "PURTURB" \o ToString(k)

\* lines 531-534
definePerturbs(h) ==
    <<define(perturbName(8), str_perturb(8, h)), define(perturbName(16), str_perturb(16, h)),
      define(perturbName(32), str_perturb(32, h)), define(perturbName(64), str_perturb(64, h))>>

\* lines 535-549
defineGrading ==
    <<define("PARAM_A", "slope"), define("PARAM_B", "h*(1-slope*refine_dist)"),
      define("PARAM_A2", "0.5*slope"), define("PARAM_B2", "h*(1-0.5*slope*refine_dist)"),
      define("THETA", "0.000000000000"), define("X1", "-0.000000000000"),
      define("Y1", "-0.000000000000"), define("Z1", "-0.000000000000"),
      define("X2", "0.000000000000"), define("Y2", "0.000000000000"),
      define("Z2", "0.000000000000"), define("FAMILY", "2"),
      define("OUTPUT_INTER_ID_SSINT", "id_tri_node_1.list")>>

\* lines 551-568: counterclockwise = False
triangulation ==
    <<<<"read", "POLY_FILE", "mo_poly_work">>, <<"read", "LINE_FILE", "mo_line_work">>,
      <<"cmo", "create", "mo_pts", "triplane">>, <<"copypts", "mo_pts", "mo_poly_work">>,
      <<"cmo", "select", "mo_pts">>, <<"triangulate", "clockwise">>,
      <<"cmo", "setatt", "mo_pts", "imt", "1 0 0", "ID">>,
      <<"cmo", "setatt", "mo_pts", "itetclr", "1 0 0", "ID">>, <<"resetpts", "itp">>,
      <<"cmo", "delete", "mo_poly_work">>, <<"cmo", "select", "mo_pts">>>>

\* 'recon 0; smooth;recon 0;smooth;recon 0;smooth;recon 0'
reconLine == <<"recon 0", "smooth", "recon 0", "smooth", "recon 0", "smooth", "recon 0">>

\* 'smooth;recon 0;smooth;recon 0;smooth;recon 0'
smoothLine == <<"smooth", "recon 0", "smooth", "recon 0", "smooth", "recon 0">>

massage(k) == <<"massage", "H_SCALE" \o ToString(k), "H_EPS", "H_EPS">>

\* 'perturb / pset get p_move / PERTURB64 PERTURB64 0.0'
perturb(k) == <<"perturb", "pset get p_move", "PERTURB" \o ToString(k),
                "PERTURB" \o ToString(k), "0.0">>

\* lines 571-598: the lines of one scale; only the first scale reconnects
\* between its massage and its perturbation
scaleLines(k) ==
    <<massage(k)>>
    \o (IF k = 64 THEN <<reconLine>> ELSE <<>>)
    \o <<<<"resetpts", "itp">>, <<"pset", "p_move", "attribute", "itp", "1 0 0", "0", "eq">>,
         perturb(k), reconLine, smoothLine>>

\* lines 600-615
grading(outfile) ==
    <<<<"cmo/addatt", "mo_pts", "x_four">>, <<"cmo/addatt", "mo_pts", "fac_n">>,
      <<"massage2", "user_function2.lgi", "H_PRIME", "fac_n">>,
      <<"assign", "maxiter_sm", "1">>, smoothLine, <<"assign", "maxiter_sm", "10">>,
      <<"massage2", "user_function.lgi", "H_PRIME", "fac_n">>,
      <<"cmo", "DELATT", "mo_pts", "rf_field_name">>,
      <<"dump", outfile, "mo_pts">>, <<"finish">>>>

RefinedArgs ==
    [boundary : {Line(n) : n \in 2..MaxPolyline}, feature : {Line(n) : n \in 1..MaxPolyline},
     h : Twentieths, outfile : {"refined.inp"}]

InitRefined ==
    /\ fn = "buildRefinedTriplane"
    /\ pc = "start"
    /\ args \in RefinedArgs
    /\ loc = [cmd |-> <<>>, i |-> 0]
    /\ kernel = <<>>
    /\ files = <<>>
    /\ raised = NoError

\* lines 494-498
BR_WriteInputs ==
    /\ fn = "buildRefinedTriplane" /\ pc = "start"
    /\ LET connectivity == generateLineConnectivity(args.boundary, FALSE)
           poly == _writeLineAVS(args.boundary, Some(connectivity.value), None, None, None)
           line == _writeLineAVS(args.feature, None, None, None, None)
       IN  files' = writeFile(writeFile(files, "poly_1.inp", poly.lines),
                              "intersections_1.inp", line.lines)
    /\ pc' = "defines"
    /\ UNCHANGED <<fn, args, loc, kernel, raised>>

\* lines 500-549
BR_Defines ==
    /\ fn = "buildRefinedTriplane" /\ pc = "defines"
    /\ loc' = [loc EXCEPT !.cmd = defineFiles(args.outfile) \o defineScales(args.h)
                                  \o definePerturbs(args.h) \o defineGrading]
    /\ pc' = "triangulate"
    /\ UNCHANGED <<fn, args, kernel, files, raised>>

\* lines 551-568
BR_Triangulate ==
    /\ fn = "buildRefinedTriplane" /\ pc = "triangulate"
    /\ loc' = [loc EXCEPT !.cmd = @ \o triangulation, !.i = 0]
    /\ pc' = "scales"
    /\ UNCHANGED <<fn, args, kernel, files, raised>>

\* lines 570-598: the lines of the next scale
BR_Scale ==
    /\ fn = "buildRefinedTriplane" /\ pc = "scales"
    /\ loc' = [loc EXCEPT !.cmd = @ \o scaleLines(Scales[loc.i + 1]), !.i = @ + 1]
    /\ pc' = IF loc.i + 1 = Len(Scales) THEN "grading" ELSE "scales"
    /\ UNCHANGED <<fn, args, kernel, files, raised>>

\* lines 600-615
BR_Grading ==
    /\ fn = "buildRefinedTriplane" /\ pc = "grading"
    /\ loc' = [loc EXCEPT !.cmd = @ \o grading(args.outfile)]
    /\ pc' = "call"
    /\ UNCHANGED <<fn, args, kernel, files, raised>>

\* line 619: callLaGriT(cmd, ...) runs the script
BR_Call ==
    /\ fn = "buildRefinedTriplane" /\ pc = "call"
    /\ kernel' = issue(<<"callLaGriT">>)
    /\ files' = writeFile(files, args.outfile, <<"triplane">>)
    /\ pc' = "done"
    /\ UNCHANGED <<fn, args, loc, raised>>

NextRefined ==
    \/ BR_WriteInputs
    \/ BR_Defines
    \/ BR_Triangulate
    \/ BR_Scale
    \/ BR_Grading
    \/ BR_Call
    \/ KernelFailure

SpecRefined == InitRefined /\ [][NextRefined]_vars

\* The steps of the scale loop of a script: its massage, perturb and
\* reconnect/smooth lines, from the first massage up to the grading.
ScaleSteps(cmd) ==
    LET first == Min({i \in 1..Len(cmd) : cmd[i][1] = "massage"})
        last == Min({i \in 1..Len(cmd) : cmd[i][1] = "cmo/addatt"}) - 1
        isPasses(l) == \A x \in 1..Len(l) : l[x] \in {"recon 0", "smooth"}
        recons(l) == Cardinality({x \in 1..Len(l) : l[x] = "recon 0"})
        isStep(l) == l[1] \in {"massage", "perturb"} \/ isPasses(l)
        lines == SelectSeq(SubSeq(cmd, first, last), isStep)
    IN  [i \in 1..Len(lines) |->
            IF isPasses(lines[i]) THEN <<"passes", ToString(recons(lines[i]))>>
            ELSE IF lines[i][1] = "massage" THEN <<"massage", lines[i][2]>>
            ELSE <<"perturb", lines[i][3]>>]

RECURSIVE Flatten(_)
Flatten(ss) == IF ss = <<>> THEN <<>> ELSE Head(ss) \o Flatten(Tail(ss))

\* C12 (as the claim states it): at 64h, 32h, 16h, 8h in turn the steps are
\* massage, four reconnect/smooth passes, perturbation, three further passes.
C12_SameOrderAtEveryScale ==
    (fn = "buildRefinedTriplane" /\ pc \in {"call", "done"}) =>
        ScaleSteps(loc.cmd) =
            Flatten([i \in 1..4 |->
                <<<<"massage", "H_SCALE" \o ToString(Scales[i])>>, <<"passes", "4">>,
                  <<"perturb", "PERTURB" \o ToString(Scales[i])>>, <<"passes", "3">>>>])

\* What the script holds: at 64h, 32h, 16h, 8h in turn the steps are massage,
\* at 64h only a line of four reconnections, the perturbation, then a line of
\* four and a line of three reconnections, smoothings in between.
C12_OrderByScale ==
    (fn = "buildRefinedTriplane" /\ pc \in {"call", "done"}) =>
        ScaleSteps(loc.cmd) =
            Flatten([i \in 1..4 |->
                <<<<"massage", "H_SCALE" \o ToString(Scales[i])>>>>
                \o (IF i = 1 THEN <<<<"passes", "4">>>> ELSE <<>>)
                \o <<<<"perturb", "PERTURB" \o ToString(Scales[i])>>, <<"passes", "4">>,
                     <<"passes", "3">>>>])

C12_Witness ==
    /\ fn = "buildRefinedTriplane" /\ pc = "done"
    /\ Len(ScaleSteps(loc.cmd)) = 17
    /\ ScaleSteps(loc.cmd)[6] = <<"massage", "H_SCALE32">>
    /\ ScaleSteps(loc.cmd)[7] = <<"perturb", "PERTURB32">>

\* C13: for every scale k of 64, 32, 16, 8 the script perturbs the interior
\* nodes by a symbol in x and y, and 0 in z, that an earlier line of the
\* script defines as 0.05*k*h.
C13_PerturbDefined ==
    (fn = "buildRefinedTriplane" /\ pc \in {"call", "done"}) =>
        \A k \in Range(Scales) :
            \E j \in 1..Len(loc.cmd) :
                /\ loc.cmd[j][1] = "perturb"
                /\ loc.cmd[j][2] = "pset get p_move"
                /\ loc.cmd[j][5] = "0.0"
                /\ loc.cmd[j][3] = loc.cmd[j][4]
                /\ loc.cmd[j - 1] = <<"pset", "p_move", "attribute", "itp", "1 0 0", "0", "eq">>
                /\ \E m \in 1..(j - 1) : loc.cmd[m][1] = "massage"
                                         /\ loc.cmd[m][2] = "H_SCALE" \o ToString(k)
                                         /\ \A x \in (m + 1)..(j - 1) : loc.cmd[x][1] # "massage"
                /\ \E d \in 1..(j - 1) :
                      loc.cmd[d] = define(loc.cmd[j][3], str_perturb(k, args.h))

====
